---- MODULE Spec2Model ----
(***************************************************************************)
(* Request-scoped logging of libs/pino-nestjs: the AsyncLocalStorage       *)
(* carrier and Store (storage.ts), the binding middleware                  *)
(* (LoggerModule.ts), the context-resolving facade (PinoLogger.ts) and the *)
(* message normalizer (Logger.ts).                                         *)
(*                                                                         *)
(* pino loggers and Store objects are heap objects.  A logger is named by  *)
(* where it was created (<<kind, request, store, ordinal>>) and `handles`  *)
(* maps each logger to the sequence of fields bound to it; a Store is      *)
(* named <<request, ordinal>>.  NoHandle and NoStore stand for             *)
(* JavaScript's undefined.                                                 *)
(***************************************************************************)
EXTENDS Integers, Sequences, FiniteSets, TLC

\* ------------------------------------------------------------------ bounds
MaxFacades == 2
MaxConfigure == 2
MaxLogs == 2
MaxAssigns == 2
MaxRecords == 3

Requests == {1, 2}
Levels == {"trace", "debug", "info", "warn", "error", "fatal"}

VARIABLES
  params,        \* Params in force: useExisting, assignResponse, renameContext,
                 \* pinoHttp.customAttributeKeys.err ("" when not given)
  handles,       \* heap of pino loggers: handles[h] = fields bound to logger h
  outOfContext,  \* PinoLogger.ts module variable outOfContext
  root,          \* PinoLogger.root
  configured,    \* number of createLoggerMiddlewares calls so far
  facades,       \* PinoLogger instances: facades[i] = its context label
  req,           \* per request: pipeline position, req.log/allLogs, res.log/allLogs
  stores,        \* heap of Store objects: [logger, responseLogger]
  cont,          \* Store captured by each request's pending continuation
  running,       \* request whose synchronous segment is executing (0 = none)
  current,       \* Store the AsyncLocalStorage resolves now
  stack,         \* associations the pending storage.run calls will put back
  unwinding,     \* the running segment has started returning from next()
  lastOp,        \* the facade operation that has just returned, and how it ended
  norm,          \* the message normalizer's last call: input and what it delegated
  registry,      \* InjectPinoLogger.ts: decoratedLoggers, the providers made of it
  sent,          \* the arguments the last facade call received and passed to pino
  http,          \* LoggerErrorInterceptor: the response, the handler's outcome and
                 \* what the interceptor delivered downstream
  transport      \* the destination the pino handles write to: whether it keeps
                 \* what it is given, and the records it was given, in order

vars == <<params, handles, outOfContext, root, configured, facades, req, stores,
          cont, running, current, stack, unwinding, lastOp, norm, registry, sent, http, transport>>

\* ------------------------------------------------------------ pino handles
NoHandle == <<"none", 0, 0, 0>>
FwLogger == <<"fw", 0, 0, 0>>
NoStore == <<0, 0>>

ReqField(r) == <<"req1", "req2">>[r]

\* The fields the k-th assign call of a request passes.
AssignFieldOf(r, k) == <<<<"a1", "b1", "c1">>, <<"a2", "b2", "c2">>>>[r][k]

\* pino(opts): a new root logger h with no bound fields.
Pino(hs, h) == hs @@ (h :> <<>>)

\* Mutant: child binds the fields to the parent as well.
ChildBindsParent(hs, h, parent, fields) ==
  [hs EXCEPT ![parent] = @ \o fields] @@ (h :> (hs[parent] \o fields))

\* parent.child(fields): a new logger h carrying the parent's fields and `fields`.
Child(hs, h, parent, fields) == hs @@ (h :> (hs[parent] \o fields))

\* logger.setBindings(fields): binds `fields` to the same logger object.
SetBindings(hs, h, fields) == [hs EXCEPT ![h] = @ \o fields]

NoOp == [op |-> "none", level |-> "none", ctx |-> 0, store |-> NoStore,
         handle |-> NoHandle, bound |-> <<>>, threw |-> "none"]

NoReq == [pc |-> "new", log |-> NoHandle, hasAllLogs |-> FALSE, allLogs |-> <<>>,
          resLog |-> NoHandle, resHasAllLogs |-> FALSE, resAllLogs |-> <<>>]

NormIdle == [pc |-> "idle"]

InitReq ==
  /\ params \in [useExisting : BOOLEAN, assignResponse : BOOLEAN,
                  renameContext : {""}, customErr : {""}]
  \* the logger the HTTP framework owns (the one reuse mode reads) exists
  /\ handles = (FwLogger :> <<>>)
  /\ outOfContext = NoHandle
  /\ root = NoHandle
  /\ configured = 0
  /\ facades = <<>>
  /\ req = [r \in Requests |-> NoReq]
  /\ stores = <<>>
  /\ cont = [r \in Requests |-> NoStore]
  /\ running = 0
  /\ current = NoStore
  /\ stack = <<>>
  /\ unwinding = FALSE
  /\ lastOp = NoOp

\* Nothing decorated yet, no provider made, no provider resolved (a count).
NoRegistry == [decoratedLoggers |-> <<>>, injected |-> 0, providers |-> <<>>,
               resolved |-> 0]

NoSent == [facade |-> 0, method |-> "none", args |-> <<>>, passed |-> <<>>]

NoHttp == [pc |-> "idle"]

\* A destination that does not keep what is written to it (the process's
\* standard output), and a destination stream that keeps every record.
NoTransport == [keeps |-> FALSE, issued |-> [c \in {0} \cup Requests |-> 0],
                records |-> <<>>]
KeepingTransport == [NoTransport EXCEPT !.keeps = TRUE]

Init ==
  /\ InitReq /\ norm = NormIdle /\ registry = NoRegistry /\ sent = NoSent
  /\ http = NoHttp /\ transport = NoTransport

\* -------------------------------------------------------------- start-up
\* Mutants of the constructor's guard: it never initialises outOfContext, or
\* it builds a new logger on every construction.
OutOfContextNeverSet(ooc) == ooc

OutOfContextAlwaysNew(ooc) ==
  IF ooc = NoHandle THEN <<"ooc", 0, 0, 0>> ELSE <<"ooc", 0, 0, 1>>

\* new PinoLogger(params): only the first instance initialises outOfContext.
OutOfContextAfterNew(ooc) == IF ooc = NoHandle THEN <<"ooc", 0, 0, 0>> ELSE ooc

NewPinoLogger ==
  /\ running = 0
  /\ Len(facades) < MaxFacades
  /\ outOfContext' = OutOfContextAfterNew(outOfContext)
  /\ handles' = IF outOfContext' \in DOMAIN handles THEN handles
                ELSE Pino(handles, outOfContext')
  /\ facades' = Append(facades, "")
  /\ UNCHANGED <<params, root, configured, req, stores, cont, running, current,
                 stack, unwinding, norm, registry, sent, http, transport>>
  /\ lastOp' = NoOp

\* createLoggerMiddlewares(params, useExisting, assignResponse): in non-reuse
\* mode pinoHttp(...) builds a middleware with a logger of its own, and
\* PinoLogger.root is pointed at it.
RootAfterCreate(useExisting, oldRoot, n) ==
  IF useExisting THEN oldRoot ELSE <<"root", 0, 0, n>>

CreateLoggerMiddlewares(max) ==
  /\ running = 0
  /\ configured < max
  /\ configured' = configured + 1
  /\ root' = RootAfterCreate(params.useExisting, root, configured')
  /\ handles' = IF root' \in DOMAIN handles \/ root' = NoHandle THEN handles
                ELSE Pino(handles, root')
  /\ UNCHANGED <<params, outOfContext, facades, req, stores, cont, running, current,
                 stack, unwinding, norm, registry, sent, http, transport>>
  /\ lastOp' = NoOp

\* ------------------------------------------------------ request pipeline
\* A request's middleware chain runs in one synchronous segment: the first
\* middleware takes the event loop when it is idle.
MayRun(r) ==
  \/ running = r /\ ~unwinding /\ req[r].pc \in {"pipe", "bound"}
  \/ running = 0 /\ req[r].pc = "new"

\* The HTTP framework's own logger attachment (what reuse mode reads):
\* req.log = res.log = a child of the framework's logger; no allLogs.
FrameworkAttach(r) ==
  /\ params.useExisting /\ configured > 0
  /\ running = 0 /\ req[r].pc = "new"
  /\ LET h == <<"fwreq", r, 0, 0>> IN
       /\ handles' = Child(handles, h, FwLogger, <<ReqField(r)>>)
       /\ req' = [req EXCEPT ![r].pc = "pipe", ![r].log = h, ![r].resLog = h]
  /\ running' = r
  /\ UNCHANGED <<params, outOfContext, root, configured, facades, stores, cont,
                 current, stack, unwinding, norm, registry, sent, http, transport>>
  /\ lastOp' = NoOp

\* A request on an HTTP adapter that attaches no logger of its own (Express
\* without pino-http in front): in reuse mode the pipeline starts with req.log
\* and res.log undefined.
FrameworkAttachesNothing(r) ==
  /\ params.useExisting /\ configured > 0
  /\ running = 0 /\ req[r].pc = "new"
  /\ req' = [req EXCEPT ![r].pc = "pipe"]
  /\ running' = r
  /\ UNCHANGED <<params, handles, outOfContext, root, configured, facades, stores,
                 cont, current, stack, unwinding, norm, registry, sent, http,
                 transport>>
  /\ lastOp' = NoOp

\* One pass through a pino-http middleware: a child logger for the request,
\* attached as req.log/res.log if none is attached yet and pushed on allLogs.
PinoHttpParent == IF params.useExisting THEN FwLogger ELSE root

PinoHttpMiddleware(r) ==
  /\ MayRun(r)
  /\ params.useExisting => req[r].pc # "new"
  /\ configured > 0
  /\ Len(req[r].allLogs) < MaxLogs
  /\ LET h == <<"req", r, 0, Len(req[r].allLogs) + 1>> IN
       /\ handles' = Child(handles, h, PinoHttpParent, <<ReqField(r)>>)
       /\ req' = [req EXCEPT
            ![r].pc = IF @ = "new" THEN "pipe" ELSE @,
            ![r].log = IF @ = NoHandle THEN h ELSE @,
            ![r].hasAllLogs = TRUE,
            ![r].allLogs = Append(@, h),
            ![r].resLog = IF @ = NoHandle THEN h ELSE @,
            ![r].resHasAllLogs = TRUE,
            ![r].resAllLogs = Append(@, h)]
  /\ running' = r
  /\ UNCHANGED <<params, outOfContext, root, configured, facades, stores, cont,
                 current, stack, unwinding, norm, registry, sent, http, transport>>
  /\ lastOp' = NoOp

\* Mutant: the first attached logger is picked instead of the last.
PickFirstLog(useExisting, q) ==
  IF ~useExisting /\ q.hasAllLogs
    THEN (IF q.allLogs = <<>> THEN NoHandle ELSE q.allLogs[1])
    ELSE q.log

\* bindLoggerMiddleware(req, res, next): the logger and response logger it picks.
PickLog(useExisting, q) ==
  IF ~useExisting /\ q.hasAllLogs
    THEN (IF q.allLogs = <<>> THEN NoHandle ELSE q.allLogs[Len(q.allLogs)])
    ELSE q.log

\* Mutant: res.log is put in the Store whether or not assignResponse is set.
PickResLogAlways(useExisting, assignResponse, q) ==
  IF ~useExisting /\ q.resHasAllLogs
    THEN (IF q.resAllLogs = <<>> THEN NoHandle ELSE q.resAllLogs[Len(q.resAllLogs)])
    ELSE q.resLog

PickResLog(useExisting, assignResponse, q) ==
  IF assignResponse /\ ~useExisting /\ q.resHasAllLogs
    THEN (IF q.resAllLogs = <<>> THEN NoHandle ELSE q.resAllLogs[Len(q.resAllLogs)])
    ELSE IF assignResponse THEN q.resLog ELSE NoHandle

\* new Store(log, resLog).  owner and assigned are history: the request whose
\* middleware created the Store and the fields assigned through it.
NewStore(r, log, resLog) ==
  [logger |-> log, responseLogger |-> resLog, owner |-> r, assigned |-> <<>>]

\* Mutant: the middleware keeps the first Store it made for later calls.
StoreCached(r, n) ==
  IF DOMAIN stores = {} THEN <<r, n>> ELSE CHOOSE s \in DOMAIN stores : TRUE

\* Mutant: one Store object shared by every storage.run call.
StoreShared(r, n) == <<1, 1>>

\* The Store object storage.run receives: a new one for every call.
StoreForRun(r, n) == <<r, n>>

BindLoggerMiddleware(r) ==
  /\ running = r /\ ~unwinding /\ req[r].pc \in {"pipe", "bound"}
  \* one binding middleware on the route per configured LoggerModule
  /\ Len(stack) < configured
  /\ LET s == StoreForRun(r, Len(stack) + 1)
         st == NewStore(r, PickLog(params.useExisting, req[r]),
                        PickResLog(params.useExisting, params.assignResponse, req[r]))
     IN /\ stores' = IF s \in DOMAIN stores THEN stores ELSE stores @@ (s :> st)
        \* storage.run(store, next): store is active while next runs
        /\ stack' = Append(stack, current)
        /\ current' = s
  /\ req' = [req EXCEPT ![r].pc = "bound"]
  /\ UNCHANGED <<params, handles, outOfContext, root, configured, facades, cont,
                 running, unwinding, norm, registry, sent, http, transport>>
  /\ lastOp' = NoOp

\* Mutant: storage.enterWith(store) in place of storage.run: nothing is put back.
AfterEnterWith(prev, cur) == cur

\* next (the rest of the pipeline) returns to storage.run, which puts back the
\* association that was active when it was called.
AfterRun(prev, cur) == prev

RunReturns(r) ==
  /\ running = r /\ stack # <<>>
  /\ current' = AfterRun(stack[Len(stack)], current)
  /\ stack' = SubSeq(stack, 1, Len(stack) - 1)
  /\ unwinding' = TRUE
  /\ UNCHANGED <<params, handles, outOfContext, root, configured, facades, req,
                 stores, cont, running, norm, registry, sent, http, transport>>
  /\ lastOp' = NoOp

\* The handler awaits: its continuation captures the active association.
Await(r) ==
  /\ running = r /\ ~unwinding /\ current # NoStore /\ cont[r] = NoStore
  /\ req[r].pc \in {"bound", "resumed"}
  /\ cont' = [cont EXCEPT ![r] = current]
  /\ unwinding' = TRUE
  /\ UNCHANGED <<params, handles, outOfContext, root, configured, facades, req,
                 stores, running, current, stack, norm, registry, sent, http, transport>>
  /\ lastOp' = NoOp

\* Restrict(f, S): the heap f without the objects outside S.
Restrict(f, S) == [x \in DOMAIN f \cap S |-> f[x]]

\* The synchronous segment ends and the event loop is idle again.  A resumed
\* continuation's association ends with its segment.  A request that leaves no
\* continuation behind is over: its request object, its loggers and its Stores
\* are unreachable and collected.
EndSegment(r) ==
  /\ running = r /\ stack = <<>>
  /\ running' = 0
  /\ current' = NoStore
  /\ unwinding' = FALSE
  /\ IF cont[r] = NoStore
       THEN /\ req' = [req EXCEPT ![r] = NoReq]
            /\ stores' = Restrict(stores, {s \in DOMAIN stores : s[1] # r})
            /\ handles' = Restrict(handles, {h \in DOMAIN handles : h[2] # r})
       ELSE /\ req' = [req EXCEPT ![r].pc = "suspended"]
            /\ UNCHANGED <<stores, handles>>
  /\ UNCHANGED <<params, outOfContext, root, configured, facades, cont, stack, norm, registry, sent, http, transport>>
  /\ lastOp' = NoOp

\* The event loop runs a pending continuation under the association it captured.
Resume(r) ==
  /\ running = 0 /\ cont[r] # NoStore
  /\ running' = r
  /\ current' = cont[r]
  /\ cont' = [cont EXCEPT ![r] = NoStore]
  /\ req' = [req EXCEPT ![r].pc = "resumed"]
  /\ UNCHANGED <<params, handles, outOfContext, root, configured, facades,
                 stores, stack, unwinding, norm, registry, sent, http, transport>>
  /\ lastOp' = NoOp

\* ------------------------------------------------------------- the facade
\* Mutant: the Store is kept in one module-level variable, whatever runs.
GetStoreGlobal ==
  IF DOMAIN stores = {} THEN NoStore ELSE CHOOSE s \in DOMAIN stores : TRUE

\* storage.getStore()
GetStore == current

\* Mutant: the getter ignores the request-scoped Store.
FallbackOnly(ss, store, ooc) == ooc

\* Mutant: outside a request the getter answers PinoLogger.root.
ActiveLoggerRoot(ss, store, ooc) ==
  IF store # NoStore /\ ss[store].logger # NoHandle THEN ss[store].logger ELSE root

\* get logger(): storage.getStore()?.logger || outOfContext
ActiveLogger(ss, store, ooc) ==
  IF store # NoStore /\ ss[store].logger # NoHandle THEN ss[store].logger ELSE ooc

\* PinoLogger.call(method, ...args): this.logger[method](...args)
CallOutcome(method) ==
  LET store == GetStore
      h == ActiveLogger(stores, store, outOfContext)
  IN [op |-> "call", level |-> method, ctx |-> running,
      store |-> store, handle |-> h,
      bound |-> IF h = NoHandle THEN <<>> ELSE handles[h],
      threw |-> IF h = NoHandle THEN "TypeError" ELSE "none"]

\* Mutant: the write is put on a stack that is flushed later, last in first out.
DeliverDeferred(records, record) == <<record>> \o records

\* logger[method](...args) returns once pino has written the record to its
\* destination: the record follows those written before it.
Deliver(records, record) == Append(records, record)

\* The destination after the call that running code makes through `via`.
\* issued counts the calls each request (0: code outside any request) has made.
Written(t, method, via) ==
  IF ~t.keeps THEN t
  ELSE LET k == t.issued[running] + 1
       IN [t EXCEPT !.issued[running] = k,
                    !.records = Deliver(@, [ctx |-> running, seq |-> k,
                                            level |-> method, via |-> via])]

\* A keeping destination holds at most MaxRecords records.
MayWrite == transport.keeps => Len(transport.records) < MaxRecords

Call(i, method) ==
  /\ i \in 1..Len(facades)
  /\ MayWrite
  /\ lastOp' = CallOutcome(method)
  /\ transport' = Written(transport, method, "facade")
  /\ UNCHANGED <<params, handles, outOfContext, root, configured, facades, req,
                 stores, cont, running, current, stack, unwinding, norm, registry,
                 sent, http>>

Trace(i) == Call(i, "trace")
Debug(i) == Call(i, "debug")
Info(i) == Call(i, "info")
Warn(i) == Call(i, "warn")
Error(i) == Call(i, "error")
Fatal(i) == Call(i, "fatal")

\* The number of assign calls made inside request r so far.
RECURSIVE SumLen(_, _)
SumLen(f, S) ==
  IF S = {} THEN 0
  ELSE LET x == CHOOSE y \in S : TRUE IN Len(f[x].assigned) + SumLen(f, S \ {x})

AssignsIn(r) == SumLen(stores, {s \in DOMAIN stores : s[1] = r})

\* Mutant: assign without its scope check.
AssignNeverThrows(store) == FALSE

\* PinoLogger.assign(fields)
AssignThrows(store) == store = NoStore

Assign(i) ==
  /\ i \in 1..Len(facades)
  /\ ~unwinding
  /\ LET store == GetStore IN
       IF AssignThrows(store)
         THEN \* throw new Error("... unable to assign extra fields out of request scope")
              /\ lastOp' = [NoOp EXCEPT !.op = "assign", !.ctx = running,
                                        !.threw = "OutOfScope"]
              /\ UNCHANGED <<handles, stores>>
         ELSE IF ActiveLogger(stores, store, NoHandle) = NoHandle
         THEN \* store.logger is undefined: store.logger.child is a TypeError
              /\ lastOp' = [NoOp EXCEPT !.op = "assign", !.ctx = running,
                                        !.store = store, !.threw = "TypeError"]
              /\ UNCHANGED <<handles, stores>>
         ELSE /\ AssignsIn(store[1]) < MaxAssigns
              /\ LET old == stores[store].logger
                     k == AssignsIn(store[1]) + 1
                     f == AssignFieldOf(store[1], k)
                     new == <<"asg", store[1], store[2], k>>
                     resp == stores[store].responseLogger
                     hs1 == Child(handles, new, old, <<f>>)
                 IN /\ handles' = IF resp # NoHandle THEN SetBindings(hs1, resp, <<f>>)
                                  ELSE hs1
                    /\ stores' = [stores EXCEPT ![store].logger = new,
                                                ![store].assigned = Append(@, f)]
                    /\ lastOp' = [NoOp EXCEPT !.op = "assign", !.ctx = running,
                                              !.store = store, !.handle = new,
                                              !.bound = hs1[new]]
  /\ UNCHANGED <<params, outOfContext, root, configured, facades, req, cont,
                 running, current, stack, unwinding, norm, registry, sent, http, transport>>

\* The serving application: LoggerModule.configure runs once, then requests
\* arrive and interleave at their suspension points.
Next ==
  \/ NewPinoLogger
  \/ CreateLoggerMiddlewares(1)
  \/ \E r \in Requests : FrameworkAttach(r)
  \/ \E r \in Requests : PinoHttpMiddleware(r)
  \/ \E r \in Requests : BindLoggerMiddleware(r)
  \/ \E r \in Requests : RunReturns(r)
  \/ \E r \in Requests : Await(r)
  \/ \E r \in Requests : EndSegment(r)
  \/ \E r \in Requests : Resume(r)
  \/ \E i \in 1..MaxFacades : Info(i)
  \/ \E i \in 1..MaxFacades : Assign(i)

Spec == Init /\ [][Next]_vars

\* The application in reuse mode on either kind of HTTP adapter: one whose
\* requests come with a logger attached and one whose requests come with none.
InitReuse == Init /\ params.useExisting

NextReuse ==
  \/ Next
  \/ \E r \in Requests : FrameworkAttachesNothing(r)

SpecReuse == InitReuse /\ [][NextReuse]_vars

\* An application that imports several LoggerModule instances: configure runs
\* once per instance, a request passes one binding middleware per instance
\* (nested storage.run calls), and all six severity methods are in use.
NextModules ==
  \/ NewPinoLogger
  \/ CreateLoggerMiddlewares(MaxConfigure)
  \/ FrameworkAttach(1)
  \/ PinoHttpMiddleware(1)
  \/ BindLoggerMiddleware(1)
  \/ RunReturns(1)
  \/ Await(1)
  \/ EndSegment(1)
  \/ Resume(1)
  \/ \E i \in 1..MaxFacades : Trace(i)
  \/ \E i \in 1..MaxFacades : Debug(i)
  \/ \E i \in 1..MaxFacades : Info(i)
  \/ \E i \in 1..MaxFacades : Warn(i)
  \/ \E i \in 1..MaxFacades : Error(i)
  \/ \E i \in 1..MaxFacades : Fatal(i)
  \/ \E i \in 1..MaxFacades : Assign(i)

SpecModules == Init /\ [][NextModules]_vars

\* ------------------------------------------------- the message normalizer
\* JavaScript values: t is the type, s the characters of a string (of a
\* number's or boolean's text, of an Error's message), f the own enumerable
\* properties of an object or array.
Value(t, s, f) == [t |-> t, s |-> s, f |-> f]
NoFields == [k \in {} |-> 0]
Undefined == Value("undefined", <<>>, NoFields)
Null == Value("null", <<>>, NoFields)
Str(chars) == Value("string", chars, NoFields)
Num7 == Value("number", <<"7">>, NoFields)
BoolTrue == Value("boolean", <<"t", "r", "u", "e">>, NoFields)
Obj(fields) == Value("object", <<>>, fields)
Arr(fields) == Value("array", <<>>, fields)
Err(chars, fields) == Value("error", chars, fields)

\* Mutant: null is given a type of its own.
TypeofNullApart(v) ==
  IF v.t \in {"object", "array", "error"} THEN "object" ELSE v.t

\* typeof v
Typeof(v) ==
  IF v.t \in {"null", "object", "array", "error"} THEN "object" ELSE v.t

\* String(v)
StringOf(v) ==
  IF v.t = "undefined" THEN <<"u", "n", "d", "e", "f", "i", "n", "e", "d">>
  ELSE IF v.t = "null" THEN <<"n", "u", "l", "l">>
  ELSE v.s

\* Mutant: the first element is taken instead of the last.
Head1(array) == IF array = <<>> THEN Undefined ELSE array[1]

\* radashi last(array): undefined for an empty array
Last(array) == IF array = <<>> THEN Undefined ELSE array[Len(array)]

\* Mutant: the first element is sliced off instead of the last.
SliceOffFirst(array) ==
  IF array = <<>> THEN <<>> ELSE SubSeq(array, 2, Len(array))

\* array.slice(0, -1)
SliceOffLast(array) ==
  IF array = <<>> THEN <<>> ELSE SubSeq(array, 1, Len(array) - 1)

\* radashi isObject(v): plain objects only, not arrays, Errors or null
IsObject(v) == v.t = "object"

\* Mutant: a key the target already has keeps the target's value.
MergeKeepTarget(target, source) ==
  [k \in DOMAIN target \cup DOMAIN source |->
     IF k \in DOMAIN target THEN target[k] ELSE source[k]]

\* Object.assign(target, source) and { ...target, ...source }
Merge(target, source) ==
  [k \in DOMAIN target \cup DOMAIN source |->
     IF k \in DOMAIN source THEN source[k] ELSE target[k]]

\* (chars.match(/%[sdjo]/g) || []).length, scanning from position i
RECURSIVE NumPlaceholders(_, _)
NumPlaceholders(chars, i) ==
  IF i >= Len(chars) THEN 0
  ELSE IF chars[i] = "%" /\ chars[i + 1] \in {"s", "d", "j", "o"}
         THEN 1 + NumPlaceholders(chars, i + 2)
         ELSE NumPlaceholders(chars, i + 1)

\* Mutant: an off-by-one comparison of the index with the placeholder count.
IsInterpolatedOffByOne(message, objIndex) ==
  IF message.t # "string" THEN FALSE
  ELSE objIndex <= NumPlaceholders(message.s, 1)

\* Mutant: the index is ignored, any placeholder keeps the object.
IsInterpolatedAnyPlaceholder(message, objIndex) ==
  IF message.t # "string" THEN FALSE
  ELSE NumPlaceholders(message.s, 1) > 0

\* isInterpolated(message, objIndex); call always passes a number as objIndex
IsInterpolated(message, objIndex) ==
  IF message.t # "string" THEN FALSE
  ELSE objIndex < NumPlaceholders(message.s, 1)

\* /\n\s*at /.test(chars)
MatchesStackFrame(chars) ==
  \E i \in 1..Len(chars) : \E j \in (i + 1)..(Len(chars) - 2) :
    /\ chars[i] = "\n"
    /\ \A k \in (i + 1)..(j - 1) : chars[k] \in {" ", "\t", "\n"}
    /\ chars[j] = "a" /\ chars[j + 1] = "t" /\ chars[j + 2] = " "

\* Mutant: the contract is recognised at every severity.
IsWrongContractAnyLevel(level, message, ps) ==
  /\ message.t = "string"
  /\ Len(ps) = 1
  /\ ps[1].t = "string"
  /\ MatchesStackFrame(ps[1].s)

\* Logger.isWrongExceptionsHandlerContract(level, message, params)
IsWrongExceptionsHandlerContract(level, message, ps) ==
  /\ level = "error"
  /\ message.t = "string"
  /\ Len(ps) = 1
  /\ ps[1].t = "string"
  /\ MatchesStackFrame(ps[1].s)

\* new Logger(logger, { renameContext }): this.contextName
ContextName(renameContext) ==
  IF renameContext = "" THEN "context" ELSE renameContext

\* Mutant: the Error's message is used as it is, even when empty.
ErrorMessageRaw(message) == message.s

\* message.message || 'Error'
ErrorMessageText(message) ==
  IF message.s = <<>> THEN <<"E", "r", "r", "o", "r">> ELSE message.s

\* Logger.call(level, message, ...optionalParams): its local variables after
\* each step, and the arguments it passes to this.logger[level].
LoggerCall(level, contextName, message, optionalParams) ==
  LET contextOrUndefined == Last(optionalParams)
      hasContext == contextOrUndefined # Undefined
      contextFields ==
        IF hasContext THEN (contextName :> contextOrUndefined) ELSE NoFields
      optionalParamsWithoutContext ==
        IF hasContext THEN SliceOffLast(optionalParams) ELSE <<>>
      maybeMergingObject == Last(optionalParamsWithoutContext)
      merges ==
        /\ IsObject(maybeMergingObject)
        /\ ~IsInterpolated(message, Len(optionalParamsWithoutContext) - 1)
      interpolationValues ==
        IF merges THEN SliceOffLast(optionalParamsWithoutContext)
                  ELSE optionalParamsWithoutContext
      mergingObject ==
        IF merges THEN Merge(contextFields, maybeMergingObject.f)
                  ELSE contextFields
      branch ==
        IF message.t = "error" THEN "error"
        ELSE IF IsWrongExceptionsHandlerContract(level, message,
                                                 optionalParamsWithoutContext)
          THEN "exceptionsHandler"
        ELSE IF Typeof(message) = "object" THEN "object"
        ELSE "string"
      args ==
        IF branch = "error"
          THEN <<Obj(Merge(mergingObject, "err" :> message)),
                 Str(ErrorMessageText(message))>>
               \o interpolationValues
        ELSE IF branch = "exceptionsHandler"
          THEN <<Obj(Merge(mergingObject,
                           "err" :> Err(message.s,
                                        "stack" :> optionalParamsWithoutContext[1])))>>
        ELSE IF branch = "object"
          THEN <<Obj(Merge(mergingObject, message.f)), Undefined>>
               \o interpolationValues
        ELSE <<Obj(mergingObject), Str(StringOf(message))>> \o interpolationValues
  IN [contextFields |-> contextFields,
      optionalParamsWithoutContext |-> optionalParamsWithoutContext,
      merged |-> merges,
      interpolationValues |-> interpolationValues,
      mergingObject |-> mergingObject,
      branch |-> branch,
      args |-> args]

\* The values the normalizer is called with.
MaxParams == 4

StrPlain == Str(<<"h", "i">>)
StrLogin ==
  Str(<<"l", "o", "g", "i", "n", " ", "a", "t", "t", "e", "m", "p", "t">>)
StrTwo == Str(<<"%", "s", " ", "d", "i", "d", " ", "%", "s">>)
StrPercent == Str(<<"5", "%", " ", "%", "d">>)
StrStack == Str(<<"E", "\n", " ", " ", "a", "t", " ", "f">>)
Obj7 == Obj("requestId" :> Num7)
ObjContext == Obj("context" :> StrPlain)
Arr7 == Arr("0" :> Num7)
ErrBoom == Err(<<"b", "o", "o", "m">>, NoFields)

Messages ==
  {StrPlain, StrLogin, StrTwo, StrPercent, Num7, BoolTrue, Null, Undefined, Obj7, ObjContext,
   Arr7, ErrBoom, Err(<<>>, NoFields)}

ParamValues == {Undefined, Null, StrPlain, StrStack, Num7, Obj(NoFields), Obj7, Arr7}

ParamLists == UNION {[1..n -> ParamValues] : n \in 0..MaxParams}

\* A Logger built on one PinoLogger, about to be called with some message
\* and parameters outside any request.
InitNorm ==
  /\ params \in [useExisting : {FALSE}, assignResponse : {FALSE},
                 renameContext : {"", "ctx"}, customErr : {""}]
  /\ registry = NoRegistry
  /\ sent = NoSent
  /\ http = NoHttp
  /\ transport = NoTransport
  /\ outOfContext = OutOfContextAfterNew(NoHandle)
  /\ handles = Pino(FwLogger :> <<>>, outOfContext)
  /\ root = NoHandle
  /\ configured = 0
  /\ facades = <<"">>
  /\ req = [r \in Requests |-> NoReq]
  /\ stores = <<>>
  /\ cont = [r \in Requests |-> NoStore]
  /\ running = 0
  /\ current = NoStore
  /\ stack = <<>>
  /\ unwinding = FALSE
  /\ lastOp = NoOp
  /\ \E message \in Messages :
       \E optionalParams \in ParamLists :
         norm = [pc |-> "input", level |-> "none",
                 contextName |-> ContextName(params.renameContext),
                 message |-> message, optionalParams |-> optionalParams,
                 out |-> LoggerCall("none", "", Undefined, <<>>)]

\* A label as a JavaScript string value.
LabelValue(context) == Str(IF context = "" THEN <<>> ELSE <<context>>)

\* new PinoLogger(params): this.errorKey
ErrorKey(customErr) == IF customErr = "" THEN "err" ELSE customErr

\* args[0]
FirstArg(args) == IF args = <<>> THEN Undefined ELSE args[1]

\* isFirstArgObject(args)
IsFirstArgObject(args) == Typeof(FirstArg(args)) = "object"

\* Mutant: the label is assigned over the caller's object.
LabelOverCaller(context, contextName, errorKey, args) ==
  IF context = "" THEN args
  ELSE IF IsFirstArgObject(args)
    THEN IF FirstArg(args).t = "error"
      THEN <<Obj(Merge(errorKey :> FirstArg(args), contextName :> LabelValue(context)))>>
           \o Tail(args)
      ELSE <<Obj(Merge(FirstArg(args).f, contextName :> LabelValue(context)))>>
           \o Tail(args)
  ELSE <<Obj(contextName :> LabelValue(context))>> \o args

\* PinoLogger.call(method, ...args): the arguments passed to this.logger[method]
PinoCallArgs(context, contextName, errorKey, args) ==
  IF context = "" THEN args
  ELSE IF IsFirstArgObject(args)
    THEN IF FirstArg(args).t = "error"
      THEN <<Obj(Merge(contextName :> LabelValue(context), errorKey :> FirstArg(args)))>>
           \o Tail(args)
      ELSE <<Obj(Merge(contextName :> LabelValue(context), FirstArg(args).f))>>
           \o Tail(args)
  ELSE <<Obj(contextName :> LabelValue(context))>> \o args

\* Logger.call, delegating to the PinoLogger's severity method.
LoggerCallAction(level) ==
  /\ norm.pc = "input"
  \* a Logger is constructed with the PinoLogger it delegates to
  /\ facades # <<>>
  /\ norm' = [norm EXCEPT !.pc = "done", !.level = level,
                          !.out = LoggerCall(level, norm.contextName,
                                             norm.message, norm.optionalParams)]
  /\ MayWrite
  /\ lastOp' = CallOutcome(level)
  /\ transport' = Written(transport, level, "normalizer")
  \* this.logger[level](...): the Logger's own PinoLogger is the first facade
  /\ sent' = [facade |-> 1, method |-> level, args |-> norm'.out.args,
              passed |-> PinoCallArgs(facades[1], ContextName(params.renameContext),
                                      ErrorKey(params.customErr), norm'.out.args)]
  /\ UNCHANGED <<params, handles, outOfContext, root, configured, facades, req,
                 stores, cont, running, current, stack, unwinding, registry, http>>

\* Logger.verbose / debug / log / warn / error / fatal
LoggerVerbose == LoggerCallAction("trace")
LoggerDebug == LoggerCallAction("debug")
LoggerLog == LoggerCallAction("info")
LoggerWarn == LoggerCallAction("warn")
LoggerError == LoggerCallAction("error")
LoggerFatal == LoggerCallAction("fatal")

NextNorm ==
  \/ LoggerVerbose
  \/ LoggerDebug
  \/ LoggerLog
  \/ LoggerWarn
  \/ LoggerError
  \/ LoggerFatal

SpecNorm == InitNorm /\ [][NextNorm]_vars

\* The serving application writing to a destination that keeps its records:
\* requests interleave at their suspension points and log through a facade or,
\* once, through the Logger.
InitOrder ==
  /\ InitReq
  /\ ~params.assignResponse
  /\ norm = [pc |-> "input", level |-> "none", contextName |-> ContextName(""),
             message |-> StrPlain, optionalParams |-> <<>>,
             out |-> LoggerCall("none", "", Undefined, <<>>)]
  /\ registry = NoRegistry
  /\ sent = NoSent
  /\ http = NoHttp
  /\ transport = KeepingTransport

NextOrder ==
  \/ NewPinoLogger
  \/ CreateLoggerMiddlewares(1)
  \/ \E r \in Requests : FrameworkAttach(r)
  \/ \E r \in Requests : PinoHttpMiddleware(r)
  \/ \E r \in Requests : BindLoggerMiddleware(r)
  \/ \E r \in Requests : RunReturns(r)
  \/ \E r \in Requests : Await(r)
  \/ \E r \in Requests : EndSegment(r)
  \/ \E r \in Requests : Resume(r)
  \/ \E i \in 1..MaxFacades : Info(i)
  \/ LoggerLog

SpecOrder == InitOrder /\ [][NextOrder]_vars

\* ------------------------------------------ labelled facades and registry
MaxInject == 2

\* The labels InjectPinoLogger is used with ('' is its default).
Labels == {"", "A", "B"}

\* getLoggerToken(context)
GetLoggerToken(context) == "PinoLogger:" \o context

\* Mutant: the registry keeps only the label registered last.
SetKeepLatest(set, context) == <<context>>

\* Mutant: the registry is a list, every registration is appended.
ListPush(set, context) == Append(set, context)

\* decoratedLoggers.add(context): a Set keeps one entry, in insertion order
SetAdd(set, context) ==
  IF \E k \in 1..Len(set) : set[k] = context THEN set ELSE Append(set, context)

\* createDecoratedLoggerProvider(context): the token and the label its factory
\* sets on the PinoLogger it is given
CreateDecoratedLoggerProvider(context) ==
  [provide |-> GetLoggerToken(context), context |-> context]

\* createProvidersForDecorated()
ProvidersForDecorated(set) ==
  [k \in 1..Len(set) |-> CreateDecoratedLoggerProvider(set[k])]

\* Mutant: the returned list is a live view of decoratedLoggers.
ReturnedListLive(list, set) == ProvidersForDecorated(set)

\* [...decoratedLoggers.values()].map(...): the list a module was given is an
\* array of its own, the same after decoratedLoggers has become `set`.
ReturnedList(list, set) == list

\* InjectPinoLogger(context)
InjectPinoLogger(context) ==
  /\ registry.injected < MaxInject
  /\ registry' = [registry EXCEPT
                    !.decoratedLoggers = SetAdd(@, context),
                    !.injected = @ + 1,
                    !.providers = ReturnedList(@, SetAdd(registry.decoratedLoggers,
                                                         context))]
  /\ lastOp' = NoOp
  /\ sent' = NoSent
  /\ UNCHANGED <<params, handles, outOfContext, root, configured, facades, req,
                 stores, cont, running, current, stack, unwinding, norm, http, transport>>

CreateProvidersForDecorated ==
  /\ registry' = [registry EXCEPT
                    !.providers = ProvidersForDecorated(registry.decoratedLoggers)]
  /\ lastOp' = NoOp
  /\ sent' = NoSent
  /\ UNCHANGED <<params, handles, outOfContext, root, configured, facades, req,
                 stores, cont, running, current, stack, unwinding, norm, http, transport>>

\* Mutant: PinoLogger in singleton scope, every factory is given the same one.
InjectedSingleton(fs) == 1

\* Scope.TRANSIENT: the factory is given a PinoLogger instance of its own.
InjectedInstance(fs) == Len(fs) + 1

\* PinoLogger.setContext(value) on facade i
SetContextOf(fs, i, value) == [fs EXCEPT ![i] = value]

\* The factory of provider k runs: a PinoLogger is injected, setContext(context)
\* is called on it and it is returned under the provider's token.
ResolveProvider(k) ==
  /\ k \in 1..Len(registry.providers)
  /\ Len(facades) < MaxFacades
  /\ LET i == InjectedInstance(facades)
         fs == IF i > Len(facades) THEN Append(facades, "") ELSE facades
     IN /\ facades' = SetContextOf(fs, i, registry.providers[k].context)
        /\ registry' = [registry EXCEPT !.resolved = @ + 1]
  /\ outOfContext' = OutOfContextAfterNew(outOfContext)
  /\ handles' = IF outOfContext' \in DOMAIN handles THEN handles
                ELSE Pino(handles, outOfContext')
  /\ lastOp' = NoOp
  /\ sent' = NoSent
  /\ UNCHANGED <<params, root, configured, req, stores, cont, running, current,
                 stack, unwinding, norm, http, transport>>

\* The application calls setContext(value) on a facade it holds.
SetContext(i, value) ==
  /\ i \in 1..Len(facades)
  /\ facades[i] # value
  /\ facades' = SetContextOf(facades, i, value)
  /\ lastOp' = NoOp
  /\ sent' = NoSent
  /\ UNCHANGED <<params, handles, outOfContext, root, configured, req, stores,
                 cont, running, current, stack, unwinding, norm, registry, http,
                 transport>>

\* The argument lists the facades are called with.
FacadeArgs ==
  {<<>>, <<StrPlain>>, <<StrTwo, Num7, StrPlain>>, <<ErrBoom>>, <<ErrBoom, StrPlain>>,
   <<Obj7, StrPlain>>, <<ObjContext>>, <<Null, StrPlain>>, <<Arr7>>}

\* PinoLogger.trace/.../fatal(...args) on facade i
CallWith(i, method, args) ==
  /\ i \in 1..Len(facades)
  /\ MayWrite
  /\ lastOp' = CallOutcome(method)
  /\ sent' = [facade |-> i, method |-> method, args |-> args,
              passed |-> PinoCallArgs(facades[i], ContextName(params.renameContext),
                                      ErrorKey(params.customErr), args)]
  /\ transport' = Written(transport, method, "facade")
  /\ UNCHANGED <<params, handles, outOfContext, root, configured, facades, req,
                 stores, cont, running, current, stack, unwinding, norm, registry, http>>

InfoWith(i, args) == CallWith(i, "info", args)

InitLabels ==
  /\ params \in [useExisting : {FALSE}, assignResponse : {FALSE},
                 renameContext : {"", "ctx"}, customErr : {"", "error"}]
  /\ handles = (FwLogger :> <<>>)
  /\ outOfContext = NoHandle
  /\ root = NoHandle
  /\ configured = 0
  /\ facades = <<>>
  /\ req = [r \in Requests |-> NoReq]
  /\ stores = <<>>
  /\ cont = [r \in Requests |-> NoStore]
  /\ running = 0
  /\ current = NoStore
  /\ stack = <<>>
  /\ unwinding = FALSE
  /\ lastOp = NoOp
  /\ norm = NormIdle
  /\ registry = NoRegistry
  /\ sent = NoSent
  /\ http = NoHttp
  /\ transport = NoTransport

\* Classes are decorated, the module makes the providers, Nest resolves them and
\* the application logs through the facades it was given.
NextLabels ==
  \/ \E context \in Labels : InjectPinoLogger(context)
  \/ CreateProvidersForDecorated
  \/ \E k \in 1..MaxInject : ResolveProvider(k)
  \/ \E i \in 1..MaxFacades : \E value \in Labels : SetContext(i, value)
  \/ \E i \in 1..MaxFacades : \E args \in FacadeArgs : InfoWith(i, args)

SpecLabels == InitLabels /\ [][NextLabels]_vars

\* An application that may rename the error field (pinoHttp.customAttributeKeys.err)
\* and logs exceptions both through the Logger, whose PinoLogger has no label,
\* and through a facade labelled A.
MaxKeyParams == 2

InitErrKey ==
  /\ params \in [useExisting : {FALSE}, assignResponse : {FALSE},
                 renameContext : {"", "ctx"}, customErr : {"", "error"}]
  /\ registry = NoRegistry
  /\ sent = NoSent
  /\ http = NoHttp
  /\ transport = NoTransport
  /\ outOfContext = OutOfContextAfterNew(NoHandle)
  /\ handles = Pino(FwLogger :> <<>>, outOfContext)
  /\ root = NoHandle
  /\ configured = 0
  /\ facades = <<"", "A">>
  /\ req = [r \in Requests |-> NoReq]
  /\ stores = <<>>
  /\ cont = [r \in Requests |-> NoStore]
  /\ running = 0
  /\ current = NoStore
  /\ stack = <<>>
  /\ unwinding = FALSE
  /\ lastOp = NoOp
  /\ \E message \in Messages :
       \E optionalParams \in UNION {[1..n -> ParamValues] : n \in 0..MaxKeyParams} :
         norm = [pc |-> "input", level |-> "none",
                 contextName |-> ContextName(params.renameContext),
                 message |-> message, optionalParams |-> optionalParams,
                 out |-> LoggerCall("none", "", Undefined, <<>>)]

NextErrKey ==
  \/ NextNorm
  \/ \E args \in FacadeArgs : InfoWith(2, args)

SpecErrKey == InitErrKey /\ [][NextErrKey]_vars

\* ------------------------------------------------- LoggerErrorInterceptor
\* obj[key] = v
SetProp(obj, key, v) == [obj EXCEPT !.f = Merge(@, key :> v)]

\* obj[key]
GetProp(obj, key) == IF key \in DOMAIN obj.f THEN obj.f[key] ELSE Undefined

\* Mutant: the error is always set on the response itself.
AttachToResponse(response, error) == SetProp(response, "err", error)

\* The throwError factory: response.raw.err = error for a Fastify reply,
\* response.err = error otherwise
AttachError(response, error) ==
  IF GetProp(response, "raw") # Undefined
    THEN SetProp(response, "raw", SetProp(GetProp(response, "raw"), "err", error))
    ELSE SetProp(response, "err", error)

\* The response objects of the two HTTP adapters, before the handler ran.
RawResponse == Obj("statusCode" :> Num7)

Responses ==
  {RawResponse,
   SetProp(RawResponse, "err", ErrBoom),
   Obj("raw" :> RawResponse),
   Obj("raw" :> SetProp(RawResponse, "err", ErrBoom)),
   Obj("raw" :> Undefined)}

\* What next.handle() emits, and what a handler throws.
HandlerValues == ParamValues
HandlerErrors == {ErrBoom, Err(<<>>, NoFields), StrPlain, Obj7, Null, Undefined}

InitIntercept ==
  /\ params = [useExisting |-> FALSE, assignResponse |-> FALSE,
               renameContext |-> "", customErr |-> ""]
  /\ handles = (FwLogger :> <<>>)
  /\ outOfContext = NoHandle
  /\ root = NoHandle
  /\ configured = 0
  /\ facades = <<>>
  /\ req = [r \in Requests |-> NoReq]
  /\ stores = <<>>
  /\ cont = [r \in Requests |-> NoStore]
  /\ running = 0
  /\ current = NoStore
  /\ stack = <<>>
  /\ unwinding = FALSE
  /\ lastOp = NoOp
  /\ norm = NormIdle
  /\ registry = NoRegistry
  /\ sent = NoSent
  /\ transport = NoTransport
  /\ \E response \in Responses :
       \E outcome \in ({"value"} \X HandlerValues) \cup ({"error"} \X HandlerErrors) :
         http = [pc |-> "handling", before |-> response, response |-> response,
                 outcome |-> outcome, delivered |-> <<"none", Undefined>>]

\* next.handle() emits a value: pipe(catchError(...)) passes it on.
HandlerCompletes ==
  /\ http.pc = "handling"
  /\ http.outcome[1] = "value"
  /\ http' = [http EXCEPT !.pc = "done", !.delivered = <<"value", http.outcome[2]>>]
  /\ UNCHANGED <<params, handles, outOfContext, root, configured, facades, req,
                 stores, cont, running, current, stack, unwinding, lastOp, norm,
                 registry, sent, transport>>

\* next.handle() fails: catchError returns throwError(factory); the factory
\* attaches the error to the response and returns it to be raised.
HandlerThrows ==
  /\ http.pc = "handling"
  /\ http.outcome[1] = "error"
  /\ http' = [http EXCEPT !.pc = "done",
                          !.response = AttachError(http.response, http.outcome[2]),
                          !.delivered = <<"error", http.outcome[2]>>]
  /\ UNCHANGED <<params, handles, outOfContext, root, configured, facades, req,
                 stores, cont, running, current, stack, unwinding, lastOp, norm,
                 registry, sent, transport>>

NextIntercept == HandlerCompletes \/ HandlerThrows

SpecIntercept == InitIntercept /\ [][NextIntercept]_vars

\* ------------------------------------------------------------------ claims
Range(q) == {q[k] : k \in DOMAIN q}

\* The fields request r may legitimately carry: its own request binding and
\* the fields assigned inside r.
FieldsOf(r) ==
  {ReqField(r)} \cup UNION {Range(stores[s].assigned) : s \in {t \in DOMAIN stores : t[1] = r}}

\* C1: a record emitted inside request A's extent is written through a handle
\* that carries only A's initial binding and the fields assigned inside A,
\* never a field of another request.
C1_RecordsCarryOnlyOwnFields ==
  (lastOp.op = "call" /\ lastOp.store # NoStore)
    => /\ lastOp.ctx \in Requests
       /\ lastOp.threw = "none"
       /\ Range(lastOp.bound) \subseteq FieldsOf(lastOp.ctx)
       /\ \A r \in Requests \ {lastOp.ctx} :
            /\ ReqField(r) \notin Range(lastOp.bound)
            /\ \A k \in 1..3 : AssignFieldOf(r, k) \notin Range(lastOp.bound)

\* Request 1 logs after its own assign while request 2, which has assigned
\* too, is suspended.
C1_Witness ==
  /\ lastOp.op = "call" /\ lastOp.ctx = 1 /\ lastOp.store = <<1, 1>>
  /\ "a1" \in Range(lastOp.bound)
  /\ req[2].pc = "suspended"
  /\ <<2, 1>> \in DOMAIN stores /\ stores[<<2, 1>>].assigned # <<>>

\* C2: at every continuation of request R the active Store is the Store the
\* binding middleware created for R, and every Store a facade operation reads
\* or writes belongs to the request whose continuation runs it.
C2_ActiveStoreIsOwn ==
  /\ \A r \in Requests :
       /\ (running = r /\ req[r].pc \in {"bound", "resumed"} /\ ~unwinding)
            => (current \in DOMAIN stores /\ stores[current].owner = r
                /\ current[1] = r)
       /\ cont[r] # NoStore
            => (cont[r] \in DOMAIN stores /\ stores[cont[r]].owner = r)
  /\ lastOp.store # NoStore
       => (lastOp.store \in DOMAIN stores /\ stores[lastOp.store].owner = lastOp.ctx)
  /\ \A s \in DOMAIN stores : stores[s].owner = s[1]

\* Request 1 runs its resumed continuation while request 2 is suspended.
C2_Witness ==
  /\ running = 1 /\ req[1].pc = "resumed" /\ current = <<1, 1>>
  /\ req[2].pc = "suspended" /\ cont[2] = <<2, 1>>
  /\ lastOp.op = "assign" /\ lastOp.store = <<1, 1>>

\* C3: outside every request extent no Store is active; inside the dispatch
\* segment the active Store is that of the innermost storage.run that has not
\* returned, and once a run returns the association active before it is back.
C3_RunScopesTheStore ==
  /\ running = 0 => current = NoStore
  /\ \A r \in Requests :
       (running = r /\ req[r].pc \in {"pipe", "bound"})
         => current = (IF stack = <<>> THEN NoStore ELSE <<r, Len(stack)>>)
  /\ (lastOp.op # "none" /\ lastOp.ctx = 0) => lastOp.store = NoStore

\* The inner of two nested runs has returned: the outer Store is active again.
C3_Witness ==
  /\ running = 1 /\ unwinding /\ Len(stack) = 1 /\ current = <<1, 1>>
  /\ <<1, 2>> \in DOMAIN stores
  /\ lastOp.op = "call" /\ lastOp.store = <<1, 1>>

\* C4: assign with no active Store throws the out-of-scope error and changes
\* nothing: no Store, no logger, neither the fallback nor the root handle.
C4_AssignOutOfScopeThrows ==
  [][(lastOp'.op = "assign" /\ lastOp'.store = NoStore)
       => /\ lastOp'.threw = "OutOfScope"
          /\ lastOp'.handle = NoHandle
          /\ current = NoStore
          /\ UNCHANGED <<stores, handles, outOfContext, root, req, cont>>]_vars

\* assign is called outside any request while request 1 is suspended.
C4_Witness ==
  /\ lastOp.op = "assign" /\ lastOp.threw = "OutOfScope" /\ lastOp.ctx = 0
  /\ req[1].pc = "suspended" /\ <<1, 1>> \in DOMAIN stores

\* C5: inside a request, assign replaces the Store's logger with a new child of
\* the previous one that adds the assigned fields; every later record of the
\* request is written through it; k assigns accumulate k field sets in order.
C5_AssignStep ==
  (lastOp'.op = "assign" /\ lastOp'.threw = "none")
    => LET s == lastOp'.store
           f == stores'[s].assigned[Len(stores'[s].assigned)]
       IN /\ s = current /\ s \in DOMAIN stores
          /\ stores'[s].logger \notin DOMAIN handles
          /\ stores'[s].logger = lastOp'.handle
          /\ handles'[stores'[s].logger] = handles[stores[s].logger] \o <<f>>
          /\ stores'[s].assigned = Append(stores[s].assigned, f)

C5_Accumulated ==
  /\ \A s \in DOMAIN stores :
       stores[s].logger # NoHandle
         => handles[stores[s].logger] = <<ReqField(s[1])>> \o stores[s].assigned
  /\ (lastOp.op = "call" /\ lastOp.store # NoStore)
       => /\ lastOp.handle = stores[lastOp.store].logger
          /\ lastOp.bound = <<ReqField(lastOp.ctx)>> \o stores[lastOp.store].assigned

C5_AssignReplacesAndAccumulates == [][C5_AssignStep]_vars /\ []C5_Accumulated

\* A record is written after two assigns in the same request.
C5_Witness ==
  /\ lastOp.op = "call" /\ lastOp.store = <<1, 1>>
  /\ stores[<<1, 1>>].assigned = <<"a1", "b1">>
  /\ lastOp.bound = <<"req1", "a1", "b1">>

\* C6: a severity method called with no active Store does not fail and writes
\* to the process-wide fallback handle, not to any request's handle.
C6_FallbackOutsideScope ==
  (lastOp.op = "call" /\ lastOp.store = NoStore)
    => /\ lastOp.level \in Levels
       /\ lastOp.threw = "none"
       /\ lastOp.handle = outOfContext
       /\ outOfContext # NoHandle
       /\ \A s \in DOMAIN stores : stores[s].logger # lastOp.handle
       /\ \A r \in Requests : lastOp.handle # req[r].log

\* fatal is called outside any request while request 1 is suspended.
C6_Witness ==
  /\ lastOp.op = "call" /\ lastOp.level = "fatal" /\ lastOp.ctx = 0
  /\ lastOp.handle = <<"ooc", 0, 0, 0>>
  /\ req[1].pc = "suspended" /\ <<1, 1>> \in DOMAIN stores

\* C7 as claimed: neither the fallback handle nor PinoLogger.root is ever
\* replaced once it holds a value.
C7_FallbackRootSetOnce ==
  [][/\ outOfContext # NoHandle => outOfContext' = outOfContext
     /\ root # NoHandle => root' = root]_vars

\* C7 amended: outOfContext is write-once; PinoLogger.root changes exactly when
\* createLoggerMiddlewares runs in non-reuse mode, which points it at the new
\* middleware's logger.
C7_OutOfContextSetOnce ==
  [][/\ outOfContext # NoHandle => outOfContext' = outOfContext
     /\ outOfContext' # outOfContext => Len(facades') = Len(facades) + 1
     /\ root' # root <=> (configured' = configured + 1 /\ ~params.useExisting)
     /\ root' # root => root' \notin DOMAIN handles]_vars

\* Two facades were built and two modules configured: root is the second
\* middleware's logger, outOfContext still the first facade's.
C7_Witness ==
  /\ Len(facades) = 2 /\ outOfContext = <<"ooc", 0, 0, 0>>
  /\ configured = 2 /\ root = <<"root", 0, 0, 2>>

\* C8: the Store a bind creates holds the last element of req.allLogs in
\* non-reuse mode and req.log in reuse mode, whatever allLogs contains.
C8_PrimaryLoggerChoice ==
  [][\A s \in DOMAIN stores' \ DOMAIN stores :
       LET q == req[s[1]] IN
         /\ q.pc \in {"pipe", "bound"}
         /\ (~params.useExisting /\ q.hasAllLogs)
              => (q.allLogs # <<>> /\ stores'[s].logger = q.allLogs[Len(q.allLogs)])
         /\ params.useExisting => stores'[s].logger = q.log
         /\ stores'[s].logger # NoHandle]_vars

\* Non-reuse mode, two attached loggers: the Store holds the second, not req.log.
C8_Witness ==
  /\ ~params.useExisting /\ <<1, 1>> \in DOMAIN stores
  /\ Len(req[1].allLogs) = 2
  /\ stores[<<1, 1>>].logger = req[1].allLogs[2]
  /\ stores[<<1, 1>>].logger # req[1].log

\* C9 as claimed: whenever optionalParams is non-empty, its last element,
\* whatever its value, is recorded under the context field name and the
\* working list is the other parameters in their original order.
C9_LastParamIsContext ==
  (norm.pc = "done" /\ norm.optionalParams # <<>>)
    => /\ norm.out.contextFields
            = (norm.contextName :> norm.optionalParams[Len(norm.optionalParams)])
       /\ norm.out.optionalParamsWithoutContext = SliceOffLast(norm.optionalParams)

\* The message has no placeholder the object at the end of the
\* params-without-context list could fill.
NoPlaceholderFor(message) ==
  message.t # "string" \/ NumPlaceholders(message.s, 1) = 0

\* The last of the params-without-context was merged into the fields and
\* taken out of the interpolation values.
TrailingMerged ==
  LET ps == norm.out.optionalParamsWithoutContext
      obj == ps[Len(ps)]
  IN /\ norm.out.interpolationValues = SliceOffLast(ps)
     /\ \A k \in DOMAIN obj.f :
          k \in DOMAIN norm.out.mergingObject /\ norm.out.mergingObject[k] = obj.f[k]
     /\ DOMAIN norm.out.mergingObject = DOMAIN norm.out.contextFields \cup DOMAIN obj.f

\* C10 as claimed: with a non-string message or no placeholder, any object
\* (plain object, array or Error) ending the params-without-context list is
\* merged into the fields and removed from the interpolation values.
C10_AnyTrailingObjectMerged ==
  (/\ norm.pc = "done"
   /\ NoPlaceholderFor(norm.message)
   /\ norm.out.optionalParamsWithoutContext # <<>>
   /\ Last(norm.out.optionalParamsWithoutContext).t \in {"object", "array", "error"})
    => TrailingMerged

\* C10 amended: with a non-string message or no placeholder, a plain object
\* ending the params-without-context list, even one with no own keys, is merged
\* into the fields and removed from the interpolation values; an array in that
\* position stays an interpolation value.
C10_TrailingPlainObjectMerged ==
  (/\ norm.pc = "done"
   /\ NoPlaceholderFor(norm.message)
   /\ norm.out.optionalParamsWithoutContext # <<>>)
    => LET ps == norm.out.optionalParamsWithoutContext IN
         /\ Last(ps).t = "object" => TrailingMerged
         /\ Last(ps).t = "array"
              => (norm.out.interpolationValues = ps
                  /\ norm.out.mergingObject = norm.out.contextFields)

\* An object with no own keys, between an interpolation value and the context,
\* under a message without placeholders.
C10_Witness ==
  /\ norm.pc = "done" /\ norm.message = StrPlain
  /\ norm.optionalParams = <<Num7, Obj(NoFields), StrPlain>>
  /\ norm.out.interpolationValues = <<Num7>>
  /\ norm.out.mergingObject = (norm.contextName :> StrPlain)

\* The last of the params-without-context was left among the interpolation
\* values and nothing of it was merged.
TrailingKept ==
  /\ norm.out.interpolationValues = norm.out.optionalParamsWithoutContext
  /\ norm.out.mergingObject = norm.out.contextFields

\* A call whose params-without-context list ends with a plain object.
EndsWithObject ==
  /\ norm.pc = "done"
  /\ norm.out.optionalParamsWithoutContext # <<>>
  /\ Last(norm.out.optionalParamsWithoutContext).t = "object"

\* C11 as claimed: the trailing object is kept as an interpolation value
\* exactly when its index counted from the end of the list (0) is below the
\* number of placeholders; "%s did %s" with two strings and {requestId: 7}
\* passes all three values as interpolation values.
C11_KeptIffEndIndexBelowCount ==
  EndsWithObject
    => /\ TrailingKept
            <=> (norm.message.t = "string" /\ 0 < NumPlaceholders(norm.message.s, 1))
       /\ (norm.message = StrTwo
           /\ norm.out.optionalParamsWithoutContext = <<StrPlain, StrPlain, Obj7>>)
            => norm.out.interpolationValues = <<StrPlain, StrPlain, Obj7>>

\* C11 amended: the trailing object is kept as an interpolation value exactly
\* when the message is a string and the object's position in the list
\* (length - 1) is below the number of placeholders, and is merged otherwise;
\* "%s did %s" with two strings and {requestId: 7} merges the object and
\* passes the two strings.
C11_KeptIffPositionBelowCount ==
  EndsWithObject
    => LET ps == norm.out.optionalParamsWithoutContext
           kept == /\ norm.message.t = "string"
                   /\ Len(ps) - 1 < NumPlaceholders(norm.message.s, 1)
       IN /\ kept => TrailingKept
          /\ ~kept => TrailingMerged
          /\ (norm.message = StrTwo /\ ps = <<StrPlain, StrPlain, Obj7>>)
               => /\ norm.out.interpolationValues = <<StrPlain, StrPlain>>
                  /\ norm.out.mergingObject["requestId"] = Num7

\* "%s did %s" called with two strings, {requestId: 7} and a context.
C11_Witness ==
  /\ norm.pc = "done" /\ norm.message = StrTwo
  /\ norm.optionalParams = <<StrPlain, StrPlain, Obj7, StrPlain>>
  /\ norm.out.merged
  /\ norm.out.interpolationValues = <<StrPlain, StrPlain>>

\* The arguments Logger.call passed to the PinoLogger severity method.
Delegated == norm.out.args

\* C12 as claimed: "login attempt" with params [{requestId: 7}] yields fields
\* with requestId: 7 at top level, the message "login attempt" and no
\* interpolation values.
C12_SoleObjectMergedAtTopLevel ==
  (norm.pc = "done" /\ norm.message = StrLogin /\ norm.optionalParams = <<Obj7>>)
    => /\ Len(Delegated) = 2
       /\ "requestId" \in DOMAIN Delegated[1].f
       /\ Delegated[1].f["requestId"] = Num7
       /\ Delegated[2] = StrLogin

\* C12 amended: "login attempt" with params [{requestId: 7}] takes the object,
\* the last parameter, as the context: the fields are {context: {requestId: 7}},
\* the message is "login attempt" and there are no interpolation values;
\* requestId is merged at top level when a context parameter follows the object.
C12_SoleObjectIsContext ==
  (norm.pc = "done" /\ norm.message = StrLogin)
    => /\ norm.optionalParams = <<Obj7>>
            => /\ Delegated = <<Obj(norm.contextName :> Obj7), StrLogin>>
               /\ norm.out.interpolationValues = <<>>
       /\ norm.optionalParams = <<Obj7, StrPlain>>
            => /\ Delegated = <<Obj(Merge(norm.contextName :> StrPlain,
                                          "requestId" :> Num7)), StrLogin>>
               /\ norm.out.interpolationValues = <<>>

\* log("login attempt", {requestId: 7}) has been normalized.
C12_Witness ==
  /\ norm.pc = "done" /\ norm.level = "info"
  /\ norm.message = StrLogin /\ norm.optionalParams = <<Obj7>>
  /\ norm.out.mergingObject = (norm.contextName :> Obj7)

\* C13: at every severity, an Error passed as the only argument is delegated
\* once, with the fields {err: that Error}, the Error's message (or "Error"
\* when it is empty) as text and no interpolation values.
C13_SoleErrorBecomesErrField ==
  (norm.pc = "done" /\ norm.message.t = "error" /\ norm.optionalParams = <<>>)
    => /\ norm.level \in Levels
       /\ Delegated = <<Obj("err" :> norm.message),
                        Str(IF norm.message.s = <<>>
                              THEN <<"E", "r", "r", "o", "r">>
                              ELSE norm.message.s)>>
       /\ norm.out.interpolationValues = <<>>
       /\ lastOp.op = "call" /\ lastOp.level = norm.level /\ lastOp.threw = "none"

\* warn(new Error("")) has been normalized.
C13_Witness ==
  /\ norm.pc = "done" /\ norm.level = "warn"
  /\ norm.message = Err(<<>>, NoFields) /\ norm.optionalParams = <<>>
  /\ Delegated[2] = Str(<<"E", "r", "r", "o", "r">>)

\* C14: the exceptions-handler branch is taken exactly when the level is error,
\* the message a string and the params-without-context one string holding a
\* stack frame ("\n", optional whitespace, "at "); it delegates only the fields
\* with err = an Error made of the message and that stack; a string message in
\* any other case takes the plain-string branch.
C14_ExceptionsHandlerContract ==
  /\ MatchesStackFrame(StrStack.s)
  /\ \A v \in ParamValues \ {StrStack} : v.t = "string" => ~MatchesStackFrame(v.s)
  /\ norm.pc = "done"
       => LET ps == norm.out.optionalParamsWithoutContext
              fires == norm.out.branch = "exceptionsHandler"
          IN /\ fires <=> (/\ norm.level = "error"
                           /\ norm.message.t = "string"
                           /\ ps = <<StrStack>>)
             /\ fires
                  => Delegated
                       = <<Obj(Merge(norm.out.contextFields,
                                     "err" :> Err(norm.message.s,
                                                  "stack" :> StrStack)))>>
             /\ (norm.message.t = "string" /\ ~fires)
                  => /\ norm.out.branch = "string"
                     /\ Delegated = <<Obj(norm.out.mergingObject), norm.message>>
                                      \o norm.out.interpolationValues

\* error("hi", "E\n  at f", "hi") has been normalized.
C14_Witness ==
  /\ norm.pc = "done" /\ norm.level = "error" /\ norm.message = StrPlain
  /\ norm.optionalParams = <<StrStack, StrPlain>>
  /\ norm.out.branch = "exceptionsHandler" /\ Len(Delegated) = 1

\* The branch of Logger.call each type of message must end in.
BranchesOf(t) ==
  IF t = "error" THEN {"error"}
  ELSE IF t \in {"null", "object", "array"} THEN {"object"}
  ELSE IF t = "string" THEN {"string", "exceptionsHandler"}
  ELSE {"string"}

\* C15: at every severity, for a message of every type and every parameter
\* list, Logger.call ends in one of its four branches without throwing and
\* delegates exactly one call, at the requested severity, to the logger the
\* facade resolves; its first argument is the fields object.
C15_NormalizerIsTotal ==
  norm.pc = "done"
    => /\ norm.level \in Levels
       /\ norm.message.t \in {"string", "number", "boolean", "null", "undefined",
                              "object", "array", "error"}
       /\ norm.out.branch \in BranchesOf(norm.message.t)
       /\ Len(Delegated) >= 1 /\ Delegated[1].t = "object"
       /\ norm.out.branch # "exceptionsHandler"
            => Len(Delegated) = 2 + Len(norm.out.interpolationValues)
       /\ lastOp.op = "call" /\ lastOp.level = norm.level
       /\ lastOp.threw = "none"
       /\ lastOp.handle = ActiveLogger(stores, GetStore, outOfContext)
       /\ lastOp.handle # NoHandle

\* fatal(null, undefined, [7]) has been normalized.
C15_Witness ==
  /\ norm.pc = "done" /\ norm.level = "fatal" /\ norm.message = Null
  /\ norm.optionalParams = <<Undefined, Arr7>>
  /\ lastOp.op = "call" /\ lastOp.level = "fatal"
  /\ Delegated = <<Obj(norm.contextName :> Arr7), Undefined, Undefined>>

\* C16 as claimed: the interpolation values are non-empty only if the message
\* is a string with at least one placeholder.
C16_InterpolationNeedsPlaceholder ==
  (norm.pc = "done" /\ norm.out.interpolationValues # <<>>)
    => (norm.message.t = "string" /\ NumPlaceholders(norm.message.s, 1) > 0)

\* C16 amended: the interpolation values are the parameters before the context,
\* in order, without the last one when it is a plain object that was merged,
\* whatever the message; outside the exceptions-handler branch they are passed
\* on after the fields and the message.
C16_InterpolationIsRemainder ==
  norm.pc = "done"
    => LET ps == norm.optionalParams
           n == Len(ps)
           rest == IF n > 0 /\ ps[n] # Undefined THEN SubSeq(ps, 1, n - 1) ELSE <<>>
           m == Len(rest)
       IN /\ norm.out.optionalParamsWithoutContext = rest
          /\ norm.out.interpolationValues
               = IF norm.out.merged THEN SubSeq(rest, 1, m - 1) ELSE rest
          /\ norm.out.merged => (m > 0 /\ rest[m].t = "object")
          /\ norm.out.branch # "exceptionsHandler"
               => SubSeq(Delegated, 3, Len(Delegated)) = norm.out.interpolationValues

\* log("hi", 7, "hi"): one interpolation value under a message without
\* placeholders.
C16_Witness ==
  /\ norm.pc = "done" /\ norm.level = "info" /\ norm.message = StrPlain
  /\ norm.optionalParams = <<Num7, StrPlain>>
  /\ norm.out.interpolationValues = <<Num7>>
  /\ Delegated = <<Obj(norm.contextName :> StrPlain), StrPlain, Num7>>

\* The field names in force and the label of the facade that made the last call.
SentContextName == IF params.renameContext = "" THEN "context" ELSE params.renameContext
SentErrorKey == IF params.customErr = "" THEN "err" ELSE params.customErr
SentLabel == facades[sent.facade]

\* C17: a facade with a non-empty label passes on, for an exception first
\* argument, a first object holding the label under the context field name and
\* the exception under the error field name; for another object first argument,
\* the caller's keys merged over the label (a caller's context key wins);
\* otherwise the label object followed by the unchanged arguments.  A facade
\* with an empty label passes its arguments on unchanged.
C17_LabelInjection ==
  sent.facade # 0
    => LET a == sent.args
           p == sent.passed
           label == Str(<<SentLabel>>)
       IN /\ SentLabel = "" => p = a
          /\ (SentLabel # "" /\ a # <<>> /\ a[1].t = "error")
               => /\ p[1].t = "object"
                  /\ DOMAIN p[1].f = {SentContextName, SentErrorKey}
                  /\ p[1].f[SentContextName] = label
                  /\ p[1].f[SentErrorKey] = a[1]
                  /\ Tail(p) = Tail(a)
          /\ (SentLabel # "" /\ a # <<>> /\ a[1].t \in {"object", "array", "null"})
               => /\ p[1].t = "object"
                  /\ DOMAIN p[1].f = {SentContextName} \cup DOMAIN a[1].f
                  /\ \A k \in DOMAIN a[1].f : p[1].f[k] = a[1].f[k]
                  /\ SentContextName \notin DOMAIN a[1].f
                       => p[1].f[SentContextName] = label
                  /\ Tail(p) = Tail(a)
          /\ (SentLabel # "" /\ (a = <<>> \/ a[1].t \in {"string", "number",
                                                         "boolean", "undefined"}))
               => p = <<Obj(SentContextName :> label)>> \o a

\* Facade "A" is called with {context: "hi"} under the default field name: the
\* caller's value is the one passed on.
C17_Witness ==
  /\ sent.facade # 0 /\ SentLabel = "A" /\ params.renameContext = ""
  /\ sent.args = <<ObjContext>>
  /\ sent.passed = <<ObjContext>>
  /\ lastOp.op = "call"

\* Resolving a label's binding yields a facade of its own that carries the
\* binding's label, and a facade's label otherwise changes only by setContext
\* on that facade.
C18_ResolveStep ==
  /\ registry'.resolved = registry.resolved + 1
       => /\ Len(facades') = Len(facades) + 1
          /\ SubSeq(facades', 1, Len(facades)) = facades
          /\ \E k \in 1..Len(registry.providers) :
               facades'[Len(facades')] = registry.providers[k].context
  /\ \A i \in 1..Len(facades) :
       (i <= Len(facades') /\ facades'[i] # facades[i])
         => /\ registry' = registry
            /\ \A j \in 1..Len(facades) \ {i} : facades'[j] = facades[j]

\* A record emitted through a labelled facade with a non-object first argument
\* carries that facade's label and no other.
C18_OwnLabelOnly ==
  (sent.facade # 0 /\ SentLabel # "" /\ ~IsFirstArgObject(sent.args))
    => /\ sent.passed[1].f[SentContextName] = Str(<<SentLabel>>)
       /\ \A other \in Labels \ {SentLabel} :
            sent.passed[1].f[SentContextName] # Str(<<other>>)

TokenOf(context) ==
  IF context = "" THEN "PinoLogger:"
  ELSE IF context = "A" THEN "PinoLogger:A" ELSE "PinoLogger:B"

\* Every label is registered at most once, and the providers made of a registry
\* are one per registered label, under that label's token.
C19_OneEntryPerLabel ==
  /\ \A context \in Labels :
       Cardinality({k \in 1..Len(registry.decoratedLoggers) :
                      registry.decoratedLoggers[k] = context}) <= 1
  /\ \A context \in Labels :
       Cardinality({k \in 1..Len(registry.providers) :
                      registry.providers[k].provide = TokenOf(context)}) <= 1
  /\ \A k \in 1..Len(registry.providers) :
       registry.providers[k].provide = TokenOf(registry.providers[k].context)
  /\ registry.injected >= 1 => Len(registry.decoratedLoggers) >= 1

C19_CreateStep ==
  registry'.providers # registry.providers
    => /\ Len(registry'.providers) = Len(registry.decoratedLoggers)
       /\ \A k \in 1..Len(registry.decoratedLoggers) :
            registry'.providers[k].provide = TokenOf(registry.decoratedLoggers[k])

\* C19: registering the same label N >= 1 times leaves one registry entry for
\* it, and createProvidersForDecorated returns exactly one binding for it,
\* under the label's token.
C19_RegistrationIsIdempotent == []C19_OneEntryPerLabel /\ [][C19_CreateStep]_vars

\* Label A was registered twice and the providers were made.
C19_Witness ==
  /\ registry.injected = 2 /\ registry.decoratedLoggers = <<"A">>
  /\ registry.providers = <<[provide |-> "PinoLogger:A", context |-> "A"]>>

\* C20: when the handler throws E, the interceptor sets E on response.raw.err
\* if the response has a raw property and on response.err otherwise, on that
\* one place only, and raises the same E; when the handler completes, the
\* response is left as it was and the value is passed on.
C20_ErrorAttachedAndRethrown ==
  http.pc = "done"
    => LET b == http.before
           r == http.response
           e == http.outcome[2]
           hasRaw == "raw" \in DOMAIN b.f /\ b.f["raw"] # Undefined
       IN /\ http.outcome[1] = "value"
               => (r = b /\ http.delivered = <<"value", e>>)
          /\ (http.outcome[1] = "error" /\ hasRaw)
               => /\ http.delivered = <<"error", e>>
                  /\ DOMAIN r.f = DOMAIN b.f
                  /\ DOMAIN r.f["raw"].f = DOMAIN b.f["raw"].f \cup {"err"}
                  /\ r.f["raw"].f["err"] = e
                  /\ r.f["raw"].f["statusCode"] = b.f["raw"].f["statusCode"]
                  /\ \A k \in DOMAIN b.f \ {"raw"} : r.f[k] = b.f[k]
          /\ (http.outcome[1] = "error" /\ ~hasRaw)
               => /\ http.delivered = <<"error", e>>
                  /\ DOMAIN r.f = DOMAIN b.f \cup {"err"}
                  /\ r.f["err"] = e
                  /\ \A k \in DOMAIN b.f \ {"err"} : r.f[k] = b.f[k]

\* The handler threw an Error under the Fastify adapter.
C20_Witness ==
  /\ http.pc = "done" /\ http.outcome = <<"error", ErrBoom>>
  /\ http.before = Obj("raw" :> RawResponse)
  /\ http.response = Obj("raw" :> Obj("statusCode" :> Num7 @@ "err" :> ErrBoom))
  /\ http.delivered = <<"error", ErrBoom>>

\* Every call writes its record before it returns, after all records written
\* before it, and nothing but a call writes.
C21_CallStep ==
  IF lastOp'.op = "call"
    THEN /\ Len(transport'.records) = Len(transport.records) + 1
         /\ SubSeq(transport'.records, 1, Len(transport.records)) = transport.records
         /\ LET record == transport'.records[Len(transport'.records)]
            IN /\ record.ctx = running /\ record.ctx = lastOp'.ctx
               /\ record.seq = transport.issued[running] + 1
               /\ record.level = lastOp'.level
    ELSE transport' = transport

\* The records of one request stand in the destination in the order of the
\* calls that wrote them, and none is missing.
C21_InOrder ==
  /\ \A j \in DOMAIN transport.records : \A k \in DOMAIN transport.records :
       (j < k /\ transport.records[j].ctx = transport.records[k].ctx)
         => transport.records[j].seq < transport.records[k].seq
  /\ \A c \in {0} \cup Requests :
       {transport.records[k].seq :
          k \in {j \in DOMAIN transport.records : transport.records[j].ctx = c}}
         = 1..transport.issued[c]

\* C21: the records one request emits through the Logger or a facade reach the
\* logger handle's destination in the order of the emitting calls, under every
\* interleaving with other requests; each call delegates before it returns.
C21_RecordsInProgramOrder == [][C21_CallStep]_vars /\ []C21_InOrder

\* Request 1 logs, is suspended while request 2 logs, and logs again through
\* the Logger after it is resumed.
C21_Witness ==
  /\ Len(transport.records) = 3
  /\ [k \in 1..3 |-> <<transport.records[k].ctx, transport.records[k].seq>>]
       = <<<<1, 1>>, <<2, 1>>, <<1, 2>>>>
  /\ transport.records[3].via = "normalizer"
  /\ req[1].pc = "resumed" /\ req[2].pc = "suspended"

\* The loggers attached to the response objects of the requests in progress.
ResponseLogs ==
  UNION {{req[r].resLog} \cup Range(req[r].resAllLogs) : r \in Requests} \ {NoHandle}

\* A Store holds a response logger only when assignResponse is set.
C22_StoreResponseLogger ==
  \A s \in DOMAIN stores :
    /\ stores[s].responseLogger # NoHandle => params.assignResponse
    /\ ~params.assignResponse => stores[s].responseLogger = NoHandle

\* An assign that succeeds binds its fields to the Store's response logger in
\* place, and touches no response logger when the Store holds none.
C22_AssignStep ==
  (lastOp'.op = "assign" /\ lastOp'.threw = "none")
    => LET s == lastOp'.store
           resp == stores[s].responseLogger
           f == stores'[s].assigned[Len(stores'[s].assigned)]
       IN /\ stores'[s].responseLogger = resp
          /\ resp # NoHandle
               => /\ params.assignResponse
                  /\ resp \in ResponseLogs
                  /\ handles'[resp] = handles[resp] \o <<f>>
          /\ resp = NoHandle
               => /\ ~params.assignResponse
                  /\ \A h \in ResponseLogs : handles'[h] = handles[h]

\* C22: assign applies its fields to the response logger only when the Store
\* holds one, which happens only with assignResponse set; it binds them in
\* place, the Store's responseLogger staying the same object; with
\* assignResponse unset the Store holds none and assign leaves the logger
\* attached to the response untouched.
C22_ResponseLoggerBoundInPlace == []C22_StoreResponseLogger /\ [][C22_AssignStep]_vars

\* With assignResponse set, two assigns have bound their fields to the
\* response logger the Store holds.
C22_Witness ==
  /\ params.assignResponse /\ lastOp.op = "assign" /\ lastOp.threw = "none"
  /\ stores[lastOp.store].responseLogger = req[1].resLog
  /\ req[1].resLog # NoHandle
  /\ handles[req[1].resLog] = <<"req1", "a1", "b1">>

\* C23 as claimed: once createLoggerMiddlewares has run in non-reuse mode, the
\* handle a facade resolves to with no active Store is the pino-http
\* middleware's logger, the one PinoLogger.root holds.
C23_FallbackIsMiddlewareLogger ==
  (/\ lastOp.op = "call" /\ lastOp.store = NoStore
   /\ ~params.useExisting /\ configured > 0)
    => lastOp.handle = root

\* C23 amended: with no active Store a facade resolves to outOfContext, the
\* logger the first PinoLogger construction made; it is never the middleware's
\* logger held in PinoLogger.root, and it exists in reuse mode, where no
\* middleware logger is made.
C23_FallbackIsConstructorLogger ==
  /\ (lastOp.op = "call" /\ lastOp.store = NoStore)
       => /\ lastOp.handle = outOfContext
          /\ lastOp.handle[1] = "ooc"
          /\ lastOp.handle # root
  /\ root # NoHandle => (root[1] = "root" /\ root # outOfContext)
  /\ params.useExisting => root = NoHandle

\* Two modules were configured in non-reuse mode and a facade logs outside any
\* request: the record goes to outOfContext, not to the root handle.
C23_Witness ==
  /\ lastOp.op = "call" /\ lastOp.ctx = 0 /\ lastOp.store = NoStore
  /\ ~params.useExisting /\ configured = 2
  /\ root = <<"root", 0, 0, 2>>
  /\ lastOp.handle = <<"ooc", 0, 0, 0>>

\* C24 as claimed: with the error field name configured to K, an exception
\* given to the Logger as the message, and the exception the Logger builds for
\* the exceptions-handler contract, are passed on under K, the key a labelled
\* facade uses for an exception first argument.
C24_ErrorUnderConfiguredKey ==
  LET K == ErrorKey(params.customErr) IN
    /\ (/\ norm.pc = "done" /\ sent.facade = 1
        /\ norm.out.branch \in {"error", "exceptionsHandler"})
         => /\ sent.passed # <<>>
            /\ K \in DOMAIN sent.passed[1].f
            /\ sent.passed[1].f[K].t = "error"
            /\ norm.out.branch = "error" => sent.passed[1].f[K] = norm.message
            /\ K # "err" => "err" \notin DOMAIN sent.passed[1].f
    /\ (sent.facade = 2 /\ sent.args # <<>> /\ sent.args[1].t = "error")
         => /\ K \in DOMAIN sent.passed[1].f
            /\ sent.passed[1].f[K] = sent.args[1]

\* C25: for a message that is an object other than an Error, arrays included,
\* the Logger passes on the accumulated fields shallow-merged with the
\* message's own keys, the message's keys winning (over the extracted context
\* field too), then an undefined message slot, then the interpolation values.
C25_ObjectMessageMerged ==
  (norm.pc = "done" /\ norm.message.t \in {"object", "array"})
    => LET args == norm.out.args
           acc == norm.out.mergingObject
           own == norm.message.f
       IN /\ norm.out.branch = "object"
          /\ Len(args) = 2 + Len(norm.out.interpolationValues)
          /\ args[1].t = "object"
          /\ DOMAIN args[1].f = DOMAIN acc \cup DOMAIN own
          /\ \A k \in DOMAIN own : args[1].f[k] = own[k]
          /\ \A k \in DOMAIN acc \ DOMAIN own : args[1].f[k] = acc[k]
          /\ args[2] = Undefined
          /\ SubSeq(args, 3, Len(args)) = norm.out.interpolationValues
          /\ sent.args = args /\ sent.passed = args /\ sent.method = norm.level

\* The message {context: "hi"} with the parameters 7, {requestId: 7} and the
\* context 7: the message's context value replaces the extracted one.
C25_Witness ==
  /\ norm.pc = "done" /\ norm.message = ObjContext /\ norm.contextName = "context"
  /\ norm.optionalParams = <<Num7, Obj7, Num7>>
  /\ norm.out.mergingObject = ("context" :> Num7 @@ "requestId" :> Num7)
  /\ norm.out.args = <<Obj("context" :> StrPlain @@ "requestId" :> Num7), Undefined, Num7>>

\* No step removes a label from the registry, and a registration leaves its
\* label in it.
C26_RegistryStep ==
  LET dl == registry.decoratedLoggers
      dl2 == registry'.decoratedLoggers
  IN /\ Len(dl) <= Len(dl2) /\ SubSeq(dl2, 1, Len(dl)) = dl
     /\ registry'.injected = registry.injected + 1
          => \E context \in Labels :
               /\ Range(dl2) = Range(dl) \cup {context}
               /\ Len(dl2) = Cardinality(Range(dl2))
     /\ registry'.providers # registry.providers
          => /\ dl2 = dl
             /\ {registry'.providers[k].context : k \in DOMAIN registry'.providers}
                  = Range(dl)
             /\ Len(registry'.providers) = Cardinality(Range(dl))

\* The bindings a module holds have pairwise distinct tokens, each the token
\* of a label that is in the registry.
C26_DistinctTokens ==
  /\ \A j \in DOMAIN registry.providers : \A k \in DOMAIN registry.providers :
       j # k => registry.providers[j].provide # registry.providers[k].provide
  /\ \A k \in DOMAIN registry.providers :
       /\ registry.providers[k].context \in Range(registry.decoratedLoggers)
       /\ registry.providers[k].provide = TokenOf(registry.providers[k].context)

\* C26: the label registry is append-only: whatever InjectPinoLogger and
\* createProvidersForDecorated calls are made, every label registered is still
\* in the set, and each createProvidersForDecorated call returns exactly one
\* binding per label registered so far, with pairwise distinct tokens.
C26_RegistryIsAppendOnly == [][C26_RegistryStep]_vars /\ []C26_DistinctTokens

\* A was registered and the bindings made, then B was registered and the
\* bindings made again: two bindings, A's still there.
C26_Witness ==
  /\ registry.injected = 2 /\ registry.decoratedLoggers = <<"A", "B">>
  /\ registry.resolved = 1
  /\ registry.providers = <<[provide |-> "PinoLogger:A", context |-> "A"],
                            [provide |-> "PinoLogger:B", context |-> "B"]>>

\* A registration leaves the list a module was given as it is.
C30_InjectStep ==
  registry'.injected = registry.injected + 1
    => registry'.providers = registry.providers

\* The list a module holds is the bindings of the labels registered before it
\* was made, in registration order.
C30_ListOfEarlierLabels ==
  /\ Len(registry.providers) <= Len(registry.decoratedLoggers)
  /\ \A k \in DOMAIN registry.providers :
       registry.providers[k].context = registry.decoratedLoggers[k]

\* C30: the list createProvidersForDecorated returns is a snapshot of the
\* registry at the call: a label registered after the module built its
\* providers has no binding in that module, and a list returned earlier is
\* not extended by later registrations.
C30_BindingsAreSnapshot == [][C30_InjectStep]_vars /\ []C30_ListOfEarlierLabels

\* The module built its providers when only A was registered and A's binding
\* was resolved; B, registered afterwards, has no binding.
C30_Witness ==
  /\ registry.decoratedLoggers = <<"A", "B">>
  /\ registry.providers = <<[provide |-> "PinoLogger:A", context |-> "A"]>>
  /\ registry.resolved = 1 /\ facades = <<"A">>
  /\ \A k \in DOMAIN registry.providers : registry.providers[k].context # "B"

\* The Stores made for request r that are still reachable.
StoresOf(r) == {s \in DOMAIN stores : s[1] = r}

\* A step in which the binding middleware calls storage.run makes one new
\* Store, makes it the active one for next, and writes no record; no other
\* step makes a Store.
C27_BindStep ==
  /\ Len(stack') = Len(stack) + 1
       => /\ current' \notin DOMAIN stores
          /\ DOMAIN stores' = DOMAIN stores \cup {current'}
          /\ stores'[current'].owner = running
          /\ stack' = Append(stack, current)
          /\ req'[running].pc = "bound" /\ req[running].pc = "pipe"
          /\ transport' = transport
          /\ lastOp'.op = "none"
  /\ Len(stack') # Len(stack) + 1 => DOMAIN stores' \subseteq DOMAIN stores

\* A request past the binding middleware has exactly one Store; a request that
\* has not reached it has none.
C27_OnePerRequest ==
  \A r \in Requests :
    /\ req[r].pc \in {"bound", "suspended", "resumed"} => Cardinality(StoresOf(r)) = 1
    /\ req[r].pc \in {"new", "pipe"} => StoresOf(r) = {}

\* C27: for each request on a bound route the binding middleware constructs
\* exactly one new Store, calls next once with that Store active, and emits no
\* record itself.
C27_OneStorePerRequest == [][C27_BindStep]_vars /\ []C27_OnePerRequest

\* Both requests are past the binding middleware, each with a Store of its
\* own, and the only record in the destination is the one request 1 emitted.
C27_Witness ==
  /\ StoresOf(1) = {<<1, 1>>} /\ StoresOf(2) = {<<2, 1>>}
  /\ req[1].pc = "suspended" /\ req[2].pc = "bound" /\ current = <<2, 1>>
  /\ Len(transport.records) = 1 /\ transport.records[1].ctx = 1
  /\ lastOp.op = "none"

\* C28 as claimed: every Store the binding middleware makes holds a defined
\* logger, in reuse mode as in non-reuse mode, so that assign inside a request
\* never fails and a record emitted inside a request goes to the Store's
\* logger, never to the fallback handle.
C28_StoreLoggerDefined ==
  /\ \A s \in DOMAIN stores : stores[s].logger # NoHandle
  /\ (lastOp.op = "assign" /\ lastOp.store # NoStore) => lastOp.threw = "none"
  /\ (lastOp.op = "call" /\ lastOp.store # NoStore)
       => /\ lastOp.handle = stores[lastOp.store].logger
          /\ lastOp.handle # outOfContext

\* What a successful assign leaves alone whatever the configuration: the
\* fallback and root handles, the other Stores, the loggers of other requests,
\* and every field of the active Store but logger.
UntouchedByAssign(s) ==
  /\ outOfContext' = outOfContext /\ root' = root
  /\ outOfContext # NoHandle => handles'[outOfContext] = handles[outOfContext]
  /\ root # NoHandle => handles'[root] = handles[root]
  /\ DOMAIN stores' = DOMAIN stores
  /\ \A t \in DOMAIN stores \ {s} : stores'[t] = stores[t]
  /\ \A h \in DOMAIN handles : h[2] # s[1] => handles'[h] = handles[h]
  /\ stores'[s].responseLogger = stores[s].responseLogger
  /\ stores'[s].owner = stores[s].owner
  /\ stores'[s].logger \notin DOMAIN handles
  /\ DOMAIN handles' = DOMAIN handles \cup {stores'[s].logger}

\* C29 as claimed: assign changes only which handle the active Store's logger
\* field points to; the handle held before keeps its bound fields, and the
\* fallback handle, the root handle and the other requests' Stores are
\* unchanged.
C29_AssignChangesOnlyStoreLogger ==
  [][(lastOp'.op = "assign" /\ lastOp'.threw = "none")
       => LET s == lastOp'.store IN
            /\ UntouchedByAssign(s)
            /\ handles'[stores[s].logger] = handles[stores[s].logger]]_vars

\* C29 amended: assign points the active Store's logger field at a new handle
\* and leaves the fallback handle, the root handle and the other requests'
\* Stores and loggers unchanged; the handle held before keeps its bound fields
\* unless it is the Store's response logger, which receives the assigned
\* fields in place; no other existing handle changes.
C29_AssignFrame ==
  [][(lastOp'.op = "assign" /\ lastOp'.threw = "none")
       => LET s == lastOp'.store
              old == stores[s].logger
              resp == stores[s].responseLogger
              f == stores'[s].assigned[Len(stores'[s].assigned)]
          IN /\ UntouchedByAssign(s)
             /\ old # resp => handles'[old] = handles[old]
             /\ old = resp => handles'[old] = handles[old] \o <<f>>
             /\ \A h \in DOMAIN handles \ {resp} : handles'[h] = handles[h]]_vars

\* With assignResponse set, request 1's first assign has bound its field to
\* the logger attached to the request, which the Store held before and still
\* holds as response logger, while request 2 is suspended with its own Store.
C29_Witness ==
  /\ lastOp.op = "assign" /\ lastOp.threw = "none" /\ lastOp.store = <<1, 1>>
  /\ stores[<<1, 1>>].assigned = <<"a1">>
  /\ stores[<<1, 1>>].responseLogger = req[1].log
  /\ handles[req[1].log] = <<"req1", "a1">>
  /\ stores[<<1, 1>>].logger # req[1].log
  /\ req[2].pc = "suspended" /\ <<2, 1>> \in DOMAIN stores
====
